---- MODULE Spec2Model ----
(***************************************************************************)
(* A model of iolite (src/iolite/__init__.py): path resolution, the lazy   *)
(* line / JSON-Lines / CSV readers, and the text / CSV writers.            *)
(*                                                                         *)
(* A text is a sequence of characters, each a one-character string.  A     *)
(* Python value is a record [t |-> type, v |-> payload].  A lazy reader    *)
(* is a generator: its frame is a record, and one action is one next()     *)
(* of the caller, which runs the body up to the next yield, return or      *)
(* raise.  A writer runs to completion inside one call.                    *)
(***************************************************************************)
EXTENDS Integers, Sequences, FiniteSets, TLC

CR == "\r"
LF == "\n"
SP == " "
COMMA == ","
QUOTE == "\""

(***************************************************************************)
(* Generic sequence helpers.                                               *)
(***************************************************************************)
RECURSIVE Concat(_)
Concat(ss) == IF ss = <<>> THEN <<>> ELSE Head(ss) \o Concat(Tail(ss))

Range(s) == {s[i] : i \in 1..Len(s)}

Map(s, Op(_)) == [i \in 1..Len(s) |-> Op(s[i])]

Seqs(S, n) == UNION {[1..k -> S] : k \in 0..n}

NonEmptySeqs(S, n) == UNION {[1..k -> S] : k \in 1..n}

(***************************************************************************)
(* Python values.                                                          *)
(***************************************************************************)
None == [t |-> "None", v |-> <<>>]
Str(s) == [t |-> "str", v |-> s]
PyInt(n) == [t |-> "int", v |-> n]
Bool(b) == [t |-> "bool", v |-> b]
List(xs) == [t |-> "list", v |-> xs]
\* A dict keeps insertion order: v is a sequence of <<key, value>> pairs with
\* pairwise distinct keys.
Dict(kvs) == [t |-> "dict", v |-> kvs]

Keys(d) == [i \in 1..Len(d.v) |-> d.v[i][1]]

HasKey(d, k) == \E i \in 1..Len(d.v) : d.v[i][1] = k

\* dict.get(key): the value, or None when the key is absent.
Get(d, k) ==
    IF HasKey(d, k)
    THEN LET i == CHOOSE j \in 1..Len(d.v) : d.v[j][1] = k IN d.v[i][2]
    ELSE None

\* d[k] = x: an existing key keeps its position, a new key is appended.
SetItem(d, k, x) ==
    IF HasKey(d, k)
    THEN Dict([i \in 1..Len(d.v) |-> IF d.v[i][1] = k THEN <<k, x>> ELSE d.v[i]])
    ELSE Dict(Append(d.v, <<k, x>>))

\* dict equality does not look at the order of the keys.
DictEq(d1, d2) ==
    /\ d1.t = "dict" /\ d2.t = "dict"
    /\ Range(Keys(d1)) = Range(Keys(d2))
    /\ \A k \in Range(Keys(d1)) : Get(d1, k) = Get(d2, k)

\* "not x": the falsy values.
Falsy(x) ==
    \/ x.t = "None"
    \/ x.t = "bool" /\ x.v = FALSE
    \/ x.t = "int" /\ x.v = 0
    \/ x.t \in {"str", "list", "dict"} /\ x.v = <<>>

IsMapping(x) == x.t = "dict"

IsIterable(x) == x.t \in {"str", "list", "dict"}

\* iter(x) of an iterable: a str gives its characters, a dict its keys.
Items(x) ==
    CASE x.t = "list" -> x.v
      [] x.t = "dict" -> Keys(x)
      [] x.t = "str" -> [i \in 1..Len(x.v) |-> Str(<<x.v[i]>>)]

DigitChar == <<"0", "1", "2", "3", "4", "5", "6", "7", "8", "9">>

RECURSIVE NatStr(_)
NatStr(n) == IF n < 10 THEN <<DigitChar[n + 1]>>
             ELSE NatStr(n \div 10) \o <<DigitChar[(n % 10) + 1]>>

\* str(x) of a scalar.
str(x) ==
    CASE x.t = "str" -> x.v
      [] x.t = "None" -> <<"N", "o", "n", "e">>
      [] x.t = "int" -> IF x.v < 0 THEN <<"-">> \o NatStr(-x.v) ELSE NatStr(x.v)
      [] x.t = "bool" -> IF x.v THEN <<"T", "r", "u", "e">> ELSE <<"F", "a", "l", "s", "e">>

(***************************************************************************)
(* Text files: newline translation of a file opened in text mode.          *)
(* newline is "None" (the default of every function here) or "" (no        *)
(* translation); linesep is os.linesep.                                    *)
(***************************************************************************)
RECURSIVE TranslateOut(_, _)
TranslateOut(s, linesep) ==
    IF s = <<>> THEN <<>>
    ELSE (IF Head(s) = LF THEN linesep ELSE <<Head(s)>>)
         \o TranslateOut(Tail(s), linesep)

\* What fout.write(s) appends to the file.
EncodeText(s, newline, linesep) ==
    IF newline = "None" THEN TranslateOut(s, linesep) ELSE s

\* Universal newlines on input: "\r\n" and "\r" become "\n".
RECURSIVE Universal(_)
Universal(s) ==
    IF s = <<>> THEN <<>>
    ELSE IF Head(s) = CR
         THEN <<LF>> \o Universal(IF Len(s) >= 2 /\ s[2] = LF
                                  THEN SubSeq(s, 3, Len(s)) ELSE Tail(s))
         ELSE <<Head(s)>> \o Universal(Tail(s))

\* The lines "for text in fin" gives, each with its line ending; under
\* newline = "" the endings "\n", "\r" and "\r\n" end a line untranslated.
RECURSIVE SplitLines(_, _)
SplitLines(s, cur) ==
    IF s = <<>> THEN (IF cur = <<>> THEN <<>> ELSE <<cur>>)
    ELSE IF Head(s) = LF
         THEN <<Append(cur, LF)>> \o SplitLines(Tail(s), <<>>)
    ELSE IF Head(s) = CR
         THEN IF Len(s) >= 2 /\ s[2] = LF
              THEN <<cur \o <<CR, LF>>>> \o SplitLines(SubSeq(s, 3, Len(s)), <<>>)
              ELSE <<Append(cur, CR)>> \o SplitLines(Tail(s), <<>>)
    ELSE SplitLines(Tail(s), Append(cur, Head(s)))

FileLines(text, newline) ==
    IF newline = "None" THEN SplitLines(Universal(text), <<>>)
    ELSE SplitLines(text, <<>>)

Whitespace == {SP, LF, CR}

\* str.strip()
RECURSIVE LStrip(_)
LStrip(s) == IF s # <<>> /\ Head(s) \in Whitespace THEN LStrip(Tail(s)) ELSE s

RECURSIVE RStrip(_)
RStrip(s) == IF s # <<>> /\ s[Len(s)] \in Whitespace
             THEN RStrip(SubSeq(s, 1, Len(s) - 1)) ELSE s

strip(s) == RStrip(LStrip(s))

(***************************************************************************)
(* The csv module, dialect "excel": delimiter ",", quotechar QUOTE,        *)
(* doublequote, lineterminator "\r\n", QUOTE_MINIMAL, not strict.          *)
(***************************************************************************)
\* The text the writer gives a field: None is written as the empty string.
FieldText(x) == IF x.t = "None" THEN <<>> ELSE str(x)

NeedsQuote(s) == \E i \in 1..Len(s) : s[i] \in {COMMA, QUOTE, CR, LF}

RECURSIVE DoubleQuotes(_)
DoubleQuotes(s) ==
    IF s = <<>> THEN <<>>
    ELSE (IF Head(s) = QUOTE THEN <<QUOTE, QUOTE>> ELSE <<Head(s)>>)
         \o DoubleQuotes(Tail(s))

QuoteField(s) ==
    IF NeedsQuote(s) THEN <<QUOTE>> \o DoubleQuotes(s) \o <<QUOTE>> ELSE s

RECURSIVE JoinFields(_)
JoinFields(fs) ==
    IF fs = <<>> THEN <<>>
    ELSE IF Len(fs) = 1 THEN Head(fs)
    ELSE Head(fs) \o <<COMMA>> \o JoinFields(Tail(fs))

\* csv_writer.writerow(fields): the text handed to the file's write().  A
\* record that would be empty text (one empty field) is written quoted.
writerow(fields) ==
    LET rec == JoinFields([i \in 1..Len(fields) |-> QuoteField(FieldText(fields[i]))])
    IN  (IF Len(fields) > 0 /\ rec = <<>> THEN <<QUOTE, QUOTE>> ELSE rec)
        \o <<CR, LF>>

\* The reader's state machine; p = [state, field, fields].  EOL is fed after
\* the last character of every line.
EOL == "EOL"

SaveField(p, st) ==
    [state |-> st, field |-> <<>>, fields |-> Append(p.fields, p.field)]

AddChar(p, c, st) == [p EXCEPT !.state = st, !.field = Append(p.field, c)]

AfterEnd(c) == IF c = EOL THEN "START_RECORD" ELSE "EAT_CRNL"

StartField(p, c) ==
    IF c \in {LF, CR, EOL} THEN SaveField(p, AfterEnd(c))
    ELSE IF c = QUOTE THEN [p EXCEPT !.state = "IN_QUOTED_FIELD"]
    ELSE IF c = COMMA THEN SaveField(p, "START_FIELD")
    ELSE AddChar(p, c, "IN_FIELD")

ProcessChar(p, c) ==
    CASE p.state = "START_RECORD" ->
            IF c = EOL THEN p
            ELSE IF c \in {LF, CR} THEN [p EXCEPT !.state = "EAT_CRNL"]
            ELSE StartField(p, c)
      [] p.state = "START_FIELD" -> StartField(p, c)
      [] p.state = "IN_FIELD" ->
            IF c \in {LF, CR, EOL} THEN SaveField(p, AfterEnd(c))
            ELSE IF c = COMMA THEN SaveField(p, "START_FIELD")
            ELSE AddChar(p, c, "IN_FIELD")
      [] p.state = "IN_QUOTED_FIELD" ->
            IF c = EOL THEN p
            ELSE IF c = QUOTE THEN [p EXCEPT !.state = "QUOTE_IN_QUOTED_FIELD"]
            ELSE AddChar(p, c, "IN_QUOTED_FIELD")
      [] p.state = "QUOTE_IN_QUOTED_FIELD" ->
            IF c = QUOTE THEN AddChar(p, c, "IN_QUOTED_FIELD")
            ELSE IF c = COMMA THEN SaveField(p, "START_FIELD")
            ELSE IF c \in {LF, CR, EOL} THEN SaveField(p, AfterEnd(c))
            ELSE AddChar(p, c, "IN_FIELD")
      [] p.state = "EAT_CRNL" ->
            IF c \in {LF, CR} THEN p
            ELSE IF c = EOL THEN [p EXCEPT !.state = "START_RECORD"]
            ELSE [p EXCEPT !.state = "ERROR"]

RECURSIVE ProcessLine(_, _)
ProcessLine(p, line) ==
    IF line = <<>> THEN ProcessChar(p, EOL)
    ELSE ProcessLine(ProcessChar(p, Head(line)), Tail(line))

ParseReset == [state |-> "START_RECORD", field |-> <<>>, fields |-> <<>>]

\* csv.reader(lines): the rows, each a sequence of field texts.  A record
\* ends with the line on which the machine is back at START_RECORD; input
\* that ends inside a quoted field gives the fields read so far.
RECURSIVE ReaderRows(_, _)
ReaderRows(lines, p) ==
    IF lines = <<>>
    THEN IF p.field # <<>> \/ p.state = "IN_QUOTED_FIELD"
         THEN <<Append(p.fields, p.field)>> ELSE <<>>
    ELSE LET q == ProcessLine(p, Head(lines))
         IN  IF q.state = "START_RECORD"
             THEN <<q.fields>> \o ReaderRows(Tail(lines), ParseReset)
             ELSE ReaderRows(Tail(lines), q)

csv_reader(lines) == ReaderRows(lines, ParseReset)

(***************************************************************************)
(* json.loads on the documents the model reads.  A text outside the table  *)
(* is not a JSON document: json.JSONDecodeError.                           *)
(***************************************************************************)
DocObjA1 == <<"{", QUOTE, "a", QUOTE, ":", "1", "}">>
DocObjEmpty == <<"{", "}">>
DocArr12 == <<"[", "1", COMMA, "2", "]">>
DocArrEmpty == <<"[", "]">>
DocZero == <<"0">>
DocOne == <<"1">>
DocNull == <<"n", "u", "l", "l">>
DocFalse == <<"f", "a", "l", "s", "e">>
DocTrue == <<"t", "r", "u", "e">>
DocStrEmpty == <<QUOTE, QUOTE>>
DocBad == <<"b", "a", "d", "j", "s", "o", "n">>

JsonDocuments ==
    {DocObjA1, DocObjEmpty, DocArr12, DocArrEmpty, DocZero, DocOne, DocNull,
     DocFalse, DocTrue, DocStrEmpty}

JsonValue(doc) ==
    CASE doc = DocObjA1 -> Dict(<<<<Str(<<"a">>), PyInt(1)>>>>)
      [] doc = DocObjEmpty -> Dict(<<>>)
      [] doc = DocArr12 -> List(<<PyInt(1), PyInt(2)>>)
      [] doc = DocArrEmpty -> List(<<>>)
      [] doc = DocZero -> PyInt(0)
      [] doc = DocOne -> PyInt(1)
      [] doc = DocNull -> None
      [] doc = DocFalse -> Bool(FALSE)
      [] doc = DocTrue -> Bool(TRUE)
      [] doc = DocStrEmpty -> Str(<<>>)

\* json.loads(text): leading and trailing whitespace is allowed.
json_loads(text) ==
    LET doc == strip(text)
    IN  IF doc \in JsonDocuments
        THEN [ok |-> TRUE, value |-> JsonValue(doc)]
        ELSE [ok |-> FALSE, value |-> None]

(***************************************************************************)
(* The state.                                                              *)
(***************************************************************************)
VARIABLES
    fn,       \* the function the caller calls
    args,     \* its arguments
    disk,     \* what raw_path names: [kind, parent, text, children]
    linesep,  \* os.linesep
    stdout,   \* the text written to sys.stdout
    log,      \* the logging.warning calls made
    pc,       \* where the call or the generator is
    handle,   \* the file handle of path.open(): unopened, open, closed
    inner,    \* read_json_lines: where its read_text_lines generator is
    pos,      \* lines the file iterator has given
    num,      \* enumerate()'s count of the records seen
    header,   \* read_csv_lines: header
    err,      \* the exception raised to the caller
    out       \* the values the caller has received from the generator

vars == <<fn, args, disk, linesep, stdout, log, pc, handle, inner, pos, num,
          header, err, out>>

\* The frame of the running call, as a value the function bodies work on.
Frame ==
    [pc |-> pc, handle |-> handle, inner |-> inner, pos |-> pos, num |-> num,
     header |-> header, err |-> err, out |-> out, log |-> log]

SetFrame(m) ==
    /\ pc' = m.pc /\ handle' = m.handle /\ inner' = m.inner /\ pos' = m.pos
    /\ num' = m.num /\ header' = m.header /\ err' = m.err /\ out' = m.out
    /\ log' = m.log

\* A faulty variant of ExitWith: the block is left with the handle as it is.
ExitWith_leaves_open(h) == h

\* Leaving the "with path.open(...)" block closes the handle.
ExitWith(h) == IF h = "open" THEN "closed" ELSE h

Yield(m, value) == [m EXCEPT !.pc = "suspended", !.out = Append(@, value)]

Return(m) == [m EXCEPT !.pc = "returned", !.handle = ExitWith(@)]

Raise(m, e) == [m EXCEPT !.pc = "raised", !.err = e, !.handle = ExitWith(@)]

\* "if not silent: logging.warning(msg)"
Warn(m, a, msg) == IF a.silent THEN m ELSE [m EXCEPT !.log = Append(@, msg)]

\* _tqdm(fin), iterated: the items of fin, in order.
tqdm_iter(xs) == xs

(***************************************************************************)
(* file                                                                    *)
(***************************************************************************)
file(d, exists) ==
    IF exists /\ d.kind = "missing" THEN "FileNotFoundError"
    ELSE IF exists /\ d.kind # "file" THEN "IsADirectoryError"
    ELSE "ok"

(***************************************************************************)
(* read_text_lines                                                         *)
(***************************************************************************)
\* "for text in fin": up to the next yield, or to the end of the file.
RECURSIVE text_loop(_, _, _)
text_loop(a, lines, m) ==
    IF m.pos >= Len(lines) THEN Return(m)
    ELSE LET raw == lines[m.pos + 1]
             text == IF a.strip THEN strip(raw) ELSE raw
             m1 == [m EXCEPT !.pos = @ + 1]
         IN  IF ~a.skip_empty \/ text # <<>>
             THEN Yield(m1, Str(text))
             ELSE text_loop(a, lines, m1)

\* One next() of the caller on the generator read_text_lines returned.
read_text_lines(a, d, m) ==
    LET lines == IF a.tqdm THEN tqdm_iter(FileLines(d.text, a.newline))
                 ELSE FileLines(d.text, a.newline)
    IN  IF m.pc = "created"
        THEN IF file(d, TRUE) # "ok" THEN Raise(m, file(d, TRUE))
             ELSE text_loop(a, lines, [m EXCEPT !.handle = "open"])
        ELSE text_loop(a, lines, m)

(***************************************************************************)
(* read_json_lines                                                         *)
(***************************************************************************)
\* The frame of the read_text_lines generator inside read_json_lines.
InnerFrame(m) == [m EXCEPT !.pc = m.inner, !.out = <<>>]

InnerArgs(a) ==
    [strip |-> FALSE, skip_empty |-> FALSE, tqdm |-> a.tqdm, newline |-> a.newline]

RECURSIVE json_loop(_, _, _)
json_loop(a, d, m) ==
    LET i == read_text_lines(InnerArgs(a), d, InnerFrame(m))
        \* what the inner generator did to the shared state
        m1 == [m EXCEPT !.inner = i.pc, !.handle = i.handle, !.pos = i.pos]
    IN  IF i.pc = "raised" THEN [m1 EXCEPT !.pc = "raised", !.err = i.err]
        ELSE IF i.pc = "returned" THEN [m1 EXCEPT !.pc = "returned"]
        ELSE LET text == i.out[1].v
                 m2 == [m1 EXCEPT !.num = @ + 1]
                 r == json_loads(text)
             IN  IF r.ok
                 THEN IF a.skip_empty /\ Falsy(r.value)
                      THEN json_loop(a, d, m2)
                      ELSE Yield(m2, r.value)
                 ELSE IF ~a.ignore_error
                      \* the error leaves the generator; the inner generator
                      \* stays suspended at its yield, inside its with block
                      THEN [m2 EXCEPT !.pc = "raised", !.err = "JSONDecodeError"]
                      ELSE json_loop(a, d, Warn(m2, a, "Cannot parse"))

read_json_lines(a, d, m) == json_loop(a, d, m)

(***************************************************************************)
(* read_csv_lines                                                          *)
(***************************************************************************)
\* dict(zip(header, struct)): a repeated key keeps its last value.
RECURSIVE ZipDict(_, _, _)
ZipDict(hs, xs, acc) ==
    IF hs = <<>> \/ xs = <<>> THEN acc
    ELSE ZipDict(Tail(hs), Tail(xs), SetItem(acc, Head(hs), Head(xs)))

\* A row of csv.reader: a list of str.
Row(fields) == List([i \in 1..Len(fields) |-> Str(fields[i])])

\* A faulty variant of arity_mismatch: only a short row is a mismatch.
arity_mismatch_ge(hdr, struct) == Len(hdr.v) > Len(struct.v)

\* "len(header) != len(struct)"
arity_mismatch(hdr, struct) == Len(hdr.v) # Len(struct.v)

\* A faulty variant of header_left_out: skip_header is not looked at.
header_left_out_never(a) == FALSE

\* What the loop does with the header row once it is captured: left out
\* under skip_header.
header_left_out(a) == a.skip_header

RECURSIVE csv_loop(_, _, _)
csv_loop(a, rows, m) ==
    IF m.num >= Len(rows) THEN Return(m)
    ELSE LET struct == Row(rows[m.num + 1])
             first == a.header_exists /\ m.num = 0
             m0 == [m EXCEPT !.num = @ + 1]
             \* header = list(struct)
             m1 == IF first THEN [m0 EXCEPT !.header = List(struct.v)] ELSE m0
         IN  IF first /\ ~IsIterable(struct)
             THEN IF ~a.ignore_error THEN Raise(m0, "TypeError")
                  ELSE Return(Warn(m0, a, "Header not iterable."))
             ELSE IF first /\ header_left_out(a) THEN csv_loop(a, rows, m1)
             ELSE IF a.match_header
                  THEN IF arity_mismatch(m1.header, struct)
                       THEN IF ~a.ignore_error THEN Raise(m1, "ValueError")
                            \* Skip this line.
                            ELSE csv_loop(a, rows, Warn(m1, a, "Cannot match"))
                       ELSE Yield(m1, IF a.to_dict
                                      THEN ZipDict(m1.header.v, struct.v, Dict(<<>>))
                                      ELSE struct)
                  ELSE Yield(m1, struct)

\* A faulty variant of no_header_to_match: the option check is left out.
no_header_to_match_never(a) == FALSE

\* The two option checks made before the file is opened.
no_header_to_match(a) == ~a.header_exists /\ a.match_header

dict_without_match(a) == a.to_dict /\ ~a.match_header

\* One next() of the caller on the generator read_csv_lines returned.
read_csv_lines(a, d, m) ==
    LET lines == IF a.tqdm THEN tqdm_iter(FileLines(d.text, a.newline))
                 ELSE FileLines(d.text, a.newline)
        rows == csv_reader(lines)
    IN  IF m.pc = "created"
        THEN IF file(d, TRUE) # "ok" THEN Raise(m, file(d, TRUE))
             ELSE IF no_header_to_match(a)
                  THEN IF ~a.ignore_error THEN Raise(m, "RuntimeError")
                       ELSE Return(Warn(m, a, "Cannot match header if header does not exists."))
             ELSE IF dict_without_match(a)
                  THEN IF ~a.ignore_error THEN Raise(m, "RuntimeError")
                       ELSE Return(Warn(m, a, "Must match header before converting to dict."))
             ELSE csv_loop(a, rows, [m EXCEPT !.handle = "open"])
        ELSE csv_loop(a, rows, m)

(***************************************************************************)
(* The writers.  A writer's frame also holds what it does to the file and  *)
(* to sys.stdout.                                                          *)
(***************************************************************************)
WriterFrame ==
    [pc |-> pc, handle |-> handle, err |-> err, log |-> log,
     kind |-> disk.kind, parent |-> disk.parent, text |-> disk.text,
     stdout |-> stdout]

SetWriter(w) ==
    /\ pc' = w.pc /\ handle' = w.handle /\ err' = w.err /\ log' = w.log
    /\ disk' = [disk EXCEPT !.kind = w.kind, !.text = w.text]
    /\ stdout' = w.stdout

\* A faulty variant of open_w: path.open(mode='a') keeps what the file holds.
open_a(w) ==
    IF w.kind = "dir" THEN Raise(w, "IsADirectoryError")
    ELSE IF ~w.parent THEN Raise(w, "FileNotFoundError")
    ELSE [w EXCEPT !.kind = "file", !.handle = "open"]

\* path.open(mode='w'): a directory cannot be opened, and no file is created
\* in a directory that does not exist; the file is created or truncated.
open_w(w) ==
    IF w.kind = "dir" THEN Raise(w, "IsADirectoryError")
    ELSE IF ~w.parent THEN Raise(w, "FileNotFoundError")
    ELSE [w EXCEPT !.kind = "file", !.text = <<>>, !.handle = "open"]

\* fout.write(s) on the file object: s goes to the file.
file_write(w, a, ls, s) == [w EXCEPT !.text = @ \o EncodeText(s, a.newline, ls)]

\* fout.write(s) after "fout = _tqdm(fout)": tqdm's write(s, file=None,
\* end="\n") prints s and end to sys.stdout.
tqdm_write(w, a, ls, s) == [w EXCEPT !.stdout = @ \o s \o <<LF>>]

fout_write(w, a, ls, s) ==
    IF a.tqdm THEN tqdm_write(w, a, ls, s) ELSE file_write(w, a, ls, s)

(***************************************************************************)
(* write_text_lines                                                        *)
(***************************************************************************)
RECURSIVE write_text_loop(_, _, _, _)
write_text_loop(a, ls, texts, w) ==
    IF texts = <<>> THEN Return(w)
    ELSE LET text == IF a.strip THEN strip(Head(texts).v) ELSE Head(texts).v
         IN  IF a.skip_empty /\ text = <<>>
             THEN write_text_loop(a, ls, Tail(texts), w)
             ELSE write_text_loop(a, ls, Tail(texts),
                      fout_write(fout_write(w, a, ls, text), a, ls, <<LF>>))

write_text_lines(a, ls, w) ==
    LET w1 == open_w(w)
    IN  IF w1.pc = "raised" THEN w1
        ELSE write_text_loop(a, ls, a.texts.v, w1)

(***************************************************************************)
(* write_csv_lines                                                         *)
(***************************************************************************)
\* A faulty variant of missing_key: set_missing_key_to_none is not looked at.
missing_key_any(a, keys, struct) ==
    \E i \in 1..Len(keys) : ~HasKey(struct, keys[i])

\* "key not in struct and not set_missing_key_to_none" for some header key.
missing_key(a, keys, struct) ==
    /\ ~a.set_missing_key_to_none
    /\ \E i \in 1..Len(keys) : ~HasKey(struct, keys[i])

\* set(struct) - set(from_dict_keys)
unknown_keys(keys, struct) == Range(Keys(struct)) \ Range(keys)

\* A faulty variant of skip_record: "break" in the place of "continue".
skip_record_and_stop(rest) == <<>>

\* "continue" after a record is skipped: the loop goes on with the rest.
skip_record(rest) == rest

RECURSIVE write_csv_loop(_, _, _, _, _)
write_csv_loop(a, ls, keys, structs, w) ==
    IF structs = <<>> THEN Return(w)
    ELSE LET struct == Head(structs)
             rest == Tail(structs)
             next == skip_record(rest)
         IN  IF a.from_dict
             THEN IF ~IsMapping(struct)
                  THEN IF ~a.ignore_error THEN Raise(w, "TypeError")
                       \* Skip this line.
                       ELSE write_csv_loop(a, ls, keys, next,
                                Warn(w, a, "should be a mapping."))
                  ELSE IF missing_key(a, keys, struct)
                  THEN IF ~a.ignore_error THEN Raise(w, "KeyError")
                       ELSE write_csv_loop(a, ls, keys, next,
                                Warn(w, a, "key not found. Skip."))
                  ELSE IF ~a.ignore_unknown_key /\ unknown_keys(keys, struct) # {}
                  THEN IF ~a.ignore_error THEN Raise(w, "KeyError")
                       ELSE write_csv_loop(a, ls, keys, next,
                                Warn(w, a, "contains unknown_keys. Skip."))
                  ELSE write_csv_loop(a, ls, keys, rest,
                           fout_write(w, a, ls,
                               writerow([i \in 1..Len(keys) |-> Get(struct, keys[i])])))
             ELSE IF ~IsIterable(struct)
                  THEN IF ~a.ignore_error THEN Raise(w, "ValueError")
                       ELSE write_csv_loop(a, ls, keys, next,
                                Warn(w, a, "not iterable. Skip."))
                  ELSE write_csv_loop(a, ls, keys, rest,
                           fout_write(w, a, ls, writerow(Items(struct))))

\* The peek at the first record in keyed mode, then the loop over all of
\* them (the first one is put back).
write_csv_keyed(a, ls, w) ==
    LET structs == Items(a.structs)
    IN  IF structs = <<>>
        THEN IF ~a.ignore_error THEN Raise(w, "ValueError")
             ELSE Return(Warn(w, a, "empty structs."))
        ELSE IF ~IsMapping(Head(structs))
        THEN IF ~a.ignore_error THEN Raise(w, "TypeError")
             ELSE Return(Warn(w, a, "structs[0] should be a mapping."))
        ELSE LET from_dict_keys == Keys(Head(structs))
             IN  write_csv_loop(a, ls, from_dict_keys, structs,
                     fout_write(w, a, ls, writerow(from_dict_keys)))

write_csv_lines(a, ls, w) ==
    LET w1 == open_w(w)
    IN  IF w1.pc = "raised" THEN w1
        \* iter(structs)
        ELSE IF ~IsIterable(a.structs)
        THEN IF ~a.ignore_error THEN Raise(w1, "TypeError")
             ELSE Return(Warn(w1, a, "structs is not iterable."))
        ELSE IF a.from_dict THEN write_csv_keyed(a, ls, w1)
        ELSE write_csv_loop(a, ls, <<>>, Items(a.structs), w1)

(***************************************************************************)
(* folder                                                                  *)
(***************************************************************************)
FolderFrame ==
    [pc |-> pc, handle |-> handle, err |-> err, log |-> log,
     kind |-> disk.kind, parent |-> disk.parent, children |-> disk.children]

SetFolder(f) ==
    /\ pc' = f.pc /\ handle' = f.handle /\ err' = f.err /\ log' = f.log
    /\ disk' = [disk EXCEPT !.kind = f.kind, !.parent = f.parent,
                            !.children = f.children]

\* os.makedirs(path, exist_ok=True)
makedirs(f) ==
    IF f.kind = "file" THEN Raise(f, "FileExistsError")
    ELSE [f EXCEPT !.kind = "dir", !.parent = TRUE]

\* "for child in path.iterdir()", in the order the directory lists them.
\* A child is [name, kind, removable]; removing one that is not removable
\* fails with an OSError.
RECURSIVE reset_loop(_, _)
reset_loop(order, f) ==
    IF order = <<>> THEN f
    ELSE LET child == Head(order)
         IN  IF child.kind = "dir"
             THEN IF child.removable
                  THEN reset_loop(Tail(order), [f EXCEPT !.children = @ \ {child}])
                  \* except OSError
                  ELSE reset_loop(Tail(order),
                           [f EXCEPT !.log = Append(@, "Cannot remove folder")])
             ELSE IF child.removable
                  THEN reset_loop(Tail(order), [f EXCEPT !.children = @ \ {child}])
                  \* child.unlink() raises
                  ELSE Raise(f, "OSError")

folder_reset(a, order, f) ==
    IF ~a.reset THEN f
    ELSE IF f.kind = "missing" THEN makedirs(f)
    ELSE IF f.kind = "file" THEN Raise(f, "NotADirectoryError")
    ELSE reset_loop(order, f)

folder(a, order, f) ==
    IF a.exists /\ f.kind = "missing" THEN Raise(f, "FileNotFoundError")
    ELSE IF a.exists /\ f.kind # "dir" THEN Raise(f, "NotADirectoryError")
    ELSE LET f1 == folder_reset(a, order, f)
         IN  IF f1.pc = "raised" THEN f1
             ELSE IF a.touch
                  THEN LET f2 == makedirs(f1)
                       IN  IF f2.pc = "raised" THEN f2 ELSE Return(f2)
                  ELSE Return(f1)

\* The orders in which a directory may list its children.
Orders(S) ==
    {o \in [1..Cardinality(S) -> S] : \A i, j \in 1..Cardinality(S) : o[i] = o[j] => i = j}

(***************************************************************************)
(* The caller's steps.                                                     *)
(***************************************************************************)
Lazy == {"read_text_lines", "read_json_lines", "read_csv_lines"}

\* next() on the generator read_text_lines returned
NextText ==
    /\ fn = "read_text_lines"
    /\ pc \in {"created", "suspended"}
    /\ SetFrame(read_text_lines(args, disk, Frame))
    /\ UNCHANGED <<fn, args, disk, linesep, stdout>>

\* next() on the generator read_json_lines returned
NextJson ==
    /\ fn = "read_json_lines"
    /\ pc \in {"created", "suspended"}
    /\ SetFrame(read_json_lines(args, disk, Frame))
    /\ UNCHANGED <<fn, args, disk, linesep, stdout>>

\* next() on the generator read_csv_lines returned
NextCsv ==
    /\ fn = "read_csv_lines"
    /\ pc \in {"created", "suspended"}
    /\ SetFrame(read_csv_lines(args, disk, Frame))
    /\ UNCHANGED <<fn, args, disk, linesep, stdout>>

\* The caller stops iterating and closes the generator (close(), or the
\* last reference to it goes): GeneratorExit is raised at the yield and the
\* with block of that generator is left.  The generator inside
\* read_json_lines is not closed by this; it is finalized later.
Close ==
    /\ fn \in Lazy
    /\ pc \in {"created", "suspended"}
    /\ pc' = "closed"
    /\ handle' = IF fn = "read_json_lines" THEN handle ELSE ExitWith(handle)
    /\ UNCHANGED <<fn, args, disk, linesep, stdout, log, inner, pos, num, header,
                   err, out>>

\* The read_text_lines generator that read_json_lines left suspended is
\* finalized once nothing refers to it any more.
Finalize ==
    /\ fn = "read_json_lines"
    /\ pc \in {"raised", "closed"}
    /\ inner = "suspended"
    /\ inner' = "closed"
    /\ handle' = ExitWith(handle)
    /\ UNCHANGED <<fn, args, disk, linesep, stdout, log, pc, pos, num, header,
                   err, out>>

CallWriteText ==
    /\ fn = "write_text_lines"
    /\ pc = "ready"
    /\ SetWriter(write_text_lines(args, linesep, WriterFrame))
    /\ UNCHANGED <<fn, args, linesep, inner, pos, num, header, out>>

CallWriteCsv ==
    /\ fn = "write_csv_lines"
    /\ pc = "ready"
    /\ SetWriter(write_csv_lines(args, linesep, WriterFrame))
    /\ UNCHANGED <<fn, args, linesep, inner, pos, num, header, out>>

CallFolder ==
    /\ fn = "folder"
    /\ pc = "ready"
    /\ \E order \in Orders(disk.children) :
           SetFolder(folder(args, order, FolderFrame))
    /\ UNCHANGED <<fn, args, linesep, stdout, inner, pos, num, header, out>>

\* After write_csv_lines has returned, the caller reads the file back.
CallReadCsv ==
    /\ fn = "write_csv_lines"
    /\ pc = "returned"
    /\ fn' = "read_csv_lines"
    /\ pc' = "created"
    /\ handle' = "unopened"
    /\ UNCHANGED <<args, disk, linesep, stdout, log, inner, pos, num, header,
                   err, out>>

(***************************************************************************)
(* Initial states.                                                         *)
(***************************************************************************)
\* Bounds of the inputs.
MaxRows == 3
MaxLines == 4
MaxRecords == 3
MaxChildren == 2
MaxCells == 4
MaxShort == 2

Missing == [kind |-> "missing", parent |-> TRUE, text |-> <<>>, children |-> {}]
NoParent == [kind |-> "missing", parent |-> FALSE, text |-> <<>>, children |-> {}]
FileOf(text) == [kind |-> "file", parent |-> TRUE, text |-> text, children |-> {}]
DirOf(children) == [kind |-> "dir", parent |-> TRUE, text |-> <<>>, children |-> children]

\* Before the call: nothing opened, nothing read, nothing raised.
Fresh(f, start) ==
    /\ fn = f /\ pc = start
    /\ handle = "unopened" /\ pos = 0 /\ num = 0
    /\ inner = (IF f = "read_json_lines" THEN "created" ELSE "none")
    /\ header = None /\ err = "none" /\ out = <<>>
    /\ stdout = <<>> /\ log = <<>>

\* The lines of the CSV files read: a row of two fields, a row of two
\* fields whose quoted first field holds a line break, a row of one field,
\* and a blank line (a row of no fields).
CsvLines ==
    {<<"a", COMMA, "b">>, <<QUOTE, "x", LF, "y", QUOTE, COMMA, "z">>, <<"e">>, <<>>}

\* The texts of up to n of the given lines, each ended by LF.
Terminated(Lines, n) ==
    {Concat([i \in 1..Len(ls) |-> ls[i] \o <<LF>>]) : ls \in Seqs(Lines, n)}

\* The same, and the texts whose last line has no LF.
TextsOf(Lines, n) ==
    Terminated(Lines, n)
    \cup {Concat([i \in 1..Len(ls) |-> IF i < Len(ls) THEN ls[i] \o <<LF>> ELSE ls[i]]) :
              ls \in NonEmptySeqs(Lines, n)}

CsvReadArgs ==
    [header_exists : BOOLEAN, skip_header : BOOLEAN, match_header : BOOLEAN,
     to_dict : BOOLEAN, ignore_error : BOOLEAN, silent : BOOLEAN,
     tqdm : {FALSE}, newline : {"None"}]

InitCsvRead ==
    /\ Fresh("read_csv_lines", "created")
    /\ args \in CsvReadArgs
    /\ disk \in {Missing, DirOf({})} \cup {FileOf(t) : t \in Terminated(CsvLines, MaxRows + 1)}
    /\ linesep = <<LF>>

NextCsvRead == NextCsv \/ Close

SpecCsvRead == InitCsvRead /\ [][NextCsvRead]_vars

(***************************************************************************)
(* read_csv_lines: lenient header matching, and the option checks.         *)
(***************************************************************************)
\* The rows csv.reader finds in the file.
FileRows == csv_reader(FileLines(disk.text, args.newline))

\* What read_csv_lines yields for a row that matches the header.
Yielded(hdr, fields) ==
    IF args.to_dict THEN ZipDict(Row(hdr).v, Row(fields).v, Dict(<<>>))
    ELSE Row(fields)

SameArity(fields) == Len(fields) = Len(FileRows[1])

\* The data rows whose field count is the header's, in file order, as
\* they are yielded.
MatchingData ==
    LET data == SelectSeq(Tail(FileRows), SameArity)
    IN  [i \in 1..Len(data) |-> Yielded(FileRows[1], data[i])]

\* A lenient, header-matching read of a file with a header row has come
\* to its end.
LenientReadDone ==
    /\ fn = "read_csv_lines" /\ disk.kind = "file" /\ FileRows # <<>>
    /\ args.header_exists /\ args.match_header /\ args.ignore_error
    /\ pc \in {"returned", "raised"}

\* C1, as stated: a lenient header-matching read of a header row and N
\* data rows, k of them with another field count than the header, yields
\* exactly the N-k matching data rows, in file order.
C1_YieldsExactlyMatchingData ==
    LenientReadDone => pc = "returned" /\ out = MatchingData

\* C1, amended: the read yields the N-k matching data rows in file order,
\* after the header row itself unless skip_header is set (N-k+1 rows when
\* it is not), and never raises.
C1_YieldsHeaderThenMatchingData ==
    LenientReadDone =>
        /\ pc = "returned" /\ err = "none"
        /\ out = (IF args.skip_header THEN <<>>
                  ELSE <<Yielded(FileRows[1], FileRows[1])>>) \o MatchingData
        /\ Len(out) = Len(MatchingData) + (IF args.skip_header THEN 0 ELSE 1)

\* C1's case: three data rows, one of them mismatching and lying between
\* two matching ones, read to the end.
C1_Witness ==
    /\ LenientReadDone /\ pc = "returned" /\ args.skip_header
    /\ Len(FileRows) = 4 /\ Len(MatchingData) = 2
    /\ ~SameArity(FileRows[3])
    /\ out[1] # out[2]

\* An invalid combination of read options, on a path that names a file.
BadReadOptions ==
    /\ fn = "read_csv_lines" /\ disk.kind = "file"
    /\ \/ ~args.header_exists /\ args.match_header
       \/ args.to_dict /\ ~args.match_header

\* C9: with header_exists = false and match_header = true, or to_dict = true
\* and match_header = false, read_csv_lines raises RuntimeError (ignore_error
\* = false) or ends with nothing yielded and nothing raised (ignore_error =
\* true); the file is never opened and no row is consumed.
C9_OptionsCheckedBeforeAnyRow ==
    BadReadOptions =>
        /\ handle = "unopened" /\ num = 0 /\ out = <<>>
        /\ \/ pc \in {"created", "closed"} /\ err = "none"
           \/ args.ignore_error /\ pc = "returned" /\ err = "none"
           \/ ~args.ignore_error /\ pc = "raised" /\ err = "RuntimeError"
        /\ pc = "returned" /\ ~args.silent => Len(log) = 1

\* C9's case: the strict call has raised on a file that has rows.
C9_Witness ==
    /\ BadReadOptions /\ ~args.header_exists /\ args.match_header
    /\ ~args.ignore_error /\ pc = "raised" /\ err = "RuntimeError"
    /\ Len(FileRows) >= 2

(***************************************************************************)
(* write_csv_lines                                                         *)
(***************************************************************************)
KeyA == Str(<<"a">>)
KeyB == Str(<<"b">>)
KeyC == Str(<<"c">>)

\* The records written: mappings over a and b in both key orders, one
\* without b, one without b and with c, a list, and a number.
CsvRecords ==
    {Dict(<<<<KeyA, PyInt(1)>>, <<KeyB, PyInt(2)>>>>),
     Dict(<<<<KeyA, PyInt(3)>>>>),
     Dict(<<<<KeyB, PyInt(4)>>, <<KeyA, PyInt(5)>>>>),
     Dict(<<<<KeyA, PyInt(6)>>, <<KeyC, PyInt(7)>>>>),
     List(<<PyInt(8), PyInt(9)>>),
     PyInt(0)}

\* What the path may name before a write.
WriteTargets ==
    {Missing, NoParent, DirOf({}), FileOf(<<>>), FileOf(<<"o", "l", "d", LF>>)}

Platforms == {<<LF>>, <<CR, LF>>}

CsvWriteArgs ==
    [ignore_error : BOOLEAN, silent : BOOLEAN, from_dict : BOOLEAN,
     set_missing_key_to_none : BOOLEAN, ignore_unknown_key : BOOLEAN,
     tqdm : {FALSE}, newline : {"None"},
     structs : {PyInt(5)} \cup {List(rs) : rs \in Seqs(CsvRecords, MaxRecords)}]

InitCsvWrite ==
    /\ Fresh("write_csv_lines", "ready")
    /\ args \in CsvWriteArgs
    /\ disk \in WriteTargets
    /\ linesep \in Platforms

NextCsvWrite == CallWriteCsv

SpecCsvWrite == InitCsvWrite /\ [][NextCsvWrite]_vars

\* A writer's frame before the call, on a path that can be opened.
Baseline ==
    [pc |-> "ready", handle |-> "unopened", err |-> "none", log |-> <<>>,
     kind |-> "file", parent |-> TRUE, text |-> <<>>, stdout |-> <<>>]

Records == Items(args.structs)

HeaderKeys == Keys(Records[1])

\* A keyed write whose file was opened and whose first record gave the
\* header has ended; the options C4 and C5 do not name are at their
\* defaults.
KeyedWriteDone ==
    /\ fn = "write_csv_lines" /\ pc \in {"returned", "raised"}
    /\ handle = "closed"
    /\ args.from_dict /\ args.ignore_unknown_key /\ ~args.tqdm
    /\ IsIterable(args.structs) /\ Records # <<>> /\ IsMapping(Records[1])

HasAllKeys(r) == \A i \in 1..Len(HeaderKeys) : HasKey(r, HeaderKeys[i])

\* A record the keyed writer writes a row for.
Writable(r) == IsMapping(r) /\ (args.set_missing_key_to_none \/ HasAllKeys(r))

\* The row of a record: its values in header order, None for a missing key.
RowOf(r) == writerow([i \in 1..Len(HeaderKeys) |-> Get(r, HeaderKeys[i])])

\* The first record a strict write fails on; past the end if there is none.
FirstRejected ==
    LET bad == {i \in 1..Len(Records) : ~Writable(Records[i])}
    IN  IF args.ignore_error \/ bad = {} THEN Len(Records) + 1
        ELSE CHOOSE i \in bad : \A j \in bad : i <= j

\* C4: a keyed write puts the first record's keys first, as the header row,
\* then one row per mapping record, its values in header order; a record
\* that lacks a header key raises KeyError (ignore_error = false) or is left
\* out whole (ignore_error = true), unless set_missing_key_to_none, which
\* writes None (an empty field) for the key.
C4_KeyedRowsInHeaderOrder ==
    KeyedWriteDone =>
        LET seen == SubSeq(Records, 1, FirstRejected - 1)
            kept == SelectSeq(seen, Writable)
        IN  /\ disk.text = EncodeText(
                   writerow(HeaderKeys) \o Concat([i \in 1..Len(kept) |-> RowOf(kept[i])]),
                   args.newline, linesep)
            /\ IF FirstRejected <= Len(Records)
               THEN /\ pc = "raised"
                    /\ err = (IF IsMapping(Records[FirstRejected])
                              THEN "KeyError" ELSE "TypeError")
               ELSE pc = "returned" /\ err = "none"

\* C4's case: [{a: 1, b: 2}, {a: 3}] with set_missing_key_to_none gives the
\* header a,b and the rows 1,2 and 3,<empty>.
C4_Witness ==
    /\ KeyedWriteDone /\ args.set_missing_key_to_none /\ pc = "returned"
    /\ Records = <<Dict(<<<<KeyA, PyInt(1)>>, <<KeyB, PyInt(2)>>>>),
                   Dict(<<<<KeyA, PyInt(3)>>>>)>>
    /\ disk.text = <<"a", COMMA, "b", CR, LF, "1", COMMA, "2", CR, LF,
                     "3", COMMA, CR, LF>>

\* A lenient keyed write of an iterable input, its file opened, has ended.
LenientKeyedWriteDone ==
    /\ fn = "write_csv_lines" /\ pc \in {"returned", "raised"}
    /\ handle = "closed"
    /\ args.from_dict /\ args.ignore_error /\ ~args.tqdm
    /\ IsIterable(args.structs)

\* What the same call writes when given only the mapping records.
TextOfMappingsOnly ==
    LET maps == SelectSeq(Records, IsMapping)
    IN  IF maps = <<>> THEN <<>>
        ELSE write_csv_lines([args EXCEPT !.structs = List(maps)], linesep, Baseline).text

\* C5, as stated: a lenient keyed write leaves out each non-mapping record
\* alone, wherever it stands, the first record included: the file is what
\* the mapping records alone would give.
C5_NonMappingSkippedAnywhere ==
    LenientKeyedWriteDone => pc = "returned" /\ disk.text = TextOfMappingsOnly

\* C5, amended: a non-mapping record after the first is left out alone and
\* the file is what the mapping records alone would give; a non-mapping
\* first record ends the call without an error and with nothing written,
\* whatever mapping records follow it.
C5_NonMappingSkippedAfterFirst ==
    LenientKeyedWriteDone =>
        /\ pc = "returned" /\ err = "none"
        /\ disk.text = (IF Records # <<>> /\ ~IsMapping(Records[1]) THEN <<>>
                        ELSE TextOfMappingsOnly)

\* C5's case: a non-mapping record between two mapping records, both of
\* which are written.
C5_Witness ==
    /\ LenientKeyedWriteDone /\ pc = "returned"
    /\ Len(Records) = 3
    /\ IsMapping(Records[1]) /\ ~IsMapping(Records[2]) /\ IsMapping(Records[3])
    /\ HasAllKeys(Records[3])
    /\ disk.text = EncodeText(writerow(HeaderKeys) \o RowOf(Records[1]) \o RowOf(Records[3]),
                              args.newline, linesep)

\* write_csv_lines is about to be called with an input that is not iterable.
NotIterableCall ==
    /\ fn = "write_csv_lines" /\ pc = "ready" /\ ~IsIterable(args.structs)

\* C6, as stated: an input that is not iterable raises a ValueError
\* (ignore_error = false) or returns without raising (ignore_error = true),
\* and the file is after the call what it was before it.
C6_NotIterableLeavesFileAsItWas ==
    [][NotIterableCall =>
          /\ disk' = disk
          /\ IF args.ignore_error THEN pc' = "returned" /\ err' = "none"
             ELSE pc' = "raised" /\ err' = "ValueError"]_vars

\* C6, amended: on a path that can be opened for writing, an input that is
\* not iterable raises a TypeError (ignore_error = false) or returns
\* without raising (ignore_error = true); no row is written, and the file
\* is left empty: created if it was missing, truncated if it had content.
C6_NotIterableLeavesFileEmpty ==
    [][NotIterableCall /\ disk.kind # "dir" /\ disk.parent =>
          /\ disk' = FileOf(<<>>) /\ handle' = "closed"
          /\ IF args.ignore_error THEN pc' = "returned" /\ err' = "none"
             ELSE pc' = "raised" /\ err' = "TypeError"]_vars

\* C6's case: the lenient call has returned.
C6_Witness ==
    /\ fn = "write_csv_lines" /\ ~IsIterable(args.structs) /\ args.ignore_error
    /\ pc = "returned" /\ handle = "closed" /\ disk = FileOf(<<>>)

(***************************************************************************)
(* read_json_lines                                                         *)
(***************************************************************************)
\* The lines of the JSON-Lines files read, a blank line among them.
JsonLines == {DocObjA1, DocObjEmpty, DocBad, DocArr12, DocZero, DocFalse, <<>>}

JsonReadArgs ==
    [skip_empty : BOOLEAN, ignore_error : BOOLEAN, silent : BOOLEAN,
     tqdm : {FALSE}, newline : {"None"}]

InitJsonRead ==
    /\ Fresh("read_json_lines", "created")
    /\ args \in JsonReadArgs
    /\ disk \in {Missing} \cup {FileOf(t) : t \in Terminated(JsonLines, MaxLines)}
    /\ linesep = <<LF>>

NextJsonRead == NextJson \/ Close \/ Finalize

SpecJsonRead == InitJsonRead /\ [][NextJsonRead]_vars

Decodes(line) == json_loads(line).ok

\* A line that decodes to something other than an empty mapping or an
\* empty sequence.
DecodesToNonEmpty(line) ==
    /\ json_loads(line).ok
    /\ json_loads(line).value \notin {Dict(<<>>), List(<<>>)}

ValuesOf(lines) ==
    LET kept == SelectSeq(lines, DecodesToNonEmpty)
    IN  [i \in 1..Len(kept) |-> json_loads(kept[i]).value]

\* C3, as stated: with skip_empty, a lenient read yields, in file order, the
\* decoded value of every line that decodes to something other than an empty
\* mapping or sequence and skips every line that does not decode; a strict
\* read raises at the first line that does not decode.
C3_YieldsDecodedNonEmptyContainers ==
    /\ fn = "read_json_lines" /\ disk.kind = "file" /\ args.skip_empty
    /\ pc \in {"returned", "raised"}
    => LET lines == FileLines(disk.text, args.newline)
           bad == {i \in 1..Len(lines) : ~Decodes(lines[i])}
       IN  IF args.ignore_error \/ bad = {}
           THEN pc = "returned" /\ out = ValuesOf(lines)
           ELSE LET b == CHOOSE i \in bad : \A j \in bad : i <= j
                IN  /\ pc = "raised" /\ err = "JSONDecodeError"
                    /\ out = ValuesOf(SubSeq(lines, 1, b - 1))

(***************************************************************************)
(* folder                                                                  *)
(***************************************************************************)
ChildKinds == {"dir", "file"}

\* The directories of up to MaxChildren children, each a subdirectory or a
\* file that can or cannot be removed.
Child(i, c) == [name |-> i, kind |-> c.kind, removable |-> c.removable]

Directories ==
    {DirOf({Child(i, c[i]) : i \in I}) :
        I \in SUBSET (1..MaxChildren),
        c \in [1..MaxChildren -> [kind : ChildKinds, removable : BOOLEAN]]}

FolderArgs == [exists : BOOLEAN, reset : BOOLEAN, touch : BOOLEAN]

InitFolder ==
    /\ Fresh("folder", "ready")
    /\ args \in FolderArgs
    /\ disk \in {Missing, NoParent, FileOf(<<>>)} \cup Directories
    /\ linesep = <<LF>>

NextFolder == CallFolder

SpecFolder == InitFolder /\ [][NextFolder]_vars

\* C10, as stated: folder(path, reset = true) on a directory removes every
\* child it can remove, logs each removal that fails, whether of a
\* subdirectory or of a file, and never raises; a directory that did not
\* exist is created, with its parents.
C10_ResetToleratesEveryChild ==
    /\ fn = "folder" /\ args.reset /\ pc \in {"returned", "raised"}
    /\ disk.kind = "dir"
    => /\ pc = "returned" /\ err = "none"
       /\ disk.parent
       /\ \A c \in disk.children : ~c.removable
       /\ Len(log) = Cardinality(disk.children)

(***************************************************************************)
(* The progress option of the line reader and of the writers.              *)
(***************************************************************************)
\* The lines read and written as text.
TextLines == {<<"a">>, <<SP, "b", SP>>, <<SP>>, <<>>}

TextReadArgs ==
    [strip : BOOLEAN, skip_empty : BOOLEAN, tqdm : BOOLEAN, newline : {"None"}]

TextWriteArgs ==
    [strip : BOOLEAN, skip_empty : BOOLEAN, tqdm : BOOLEAN, newline : {"None"},
     texts : {List([i \in 1..Len(ts) |-> Str(ts[i])]) : ts \in Seqs(TextLines, MaxLines - 1)}]

CsvProgressArgs ==
    [ignore_error : BOOLEAN, silent : {TRUE}, from_dict : BOOLEAN,
     set_missing_key_to_none : {FALSE}, ignore_unknown_key : {TRUE},
     tqdm : BOOLEAN, newline : {"None"},
     structs : {List(rs) : rs \in Seqs(CsvRecords, MaxRecords - 1)}]

InitProgress ==
    \/ /\ Fresh("read_text_lines", "created")
       /\ args \in TextReadArgs
       /\ disk \in {FileOf(t) : t \in TextsOf(TextLines, MaxLines - 1)}
       /\ linesep = <<LF>>
    \/ /\ Fresh("write_text_lines", "ready")
       /\ args \in TextWriteArgs
       /\ disk \in {Missing, FileOf(<<"o", "l", "d", LF>>)}
       /\ linesep \in Platforms
    \/ /\ Fresh("write_csv_lines", "ready")
       /\ args \in CsvProgressArgs
       /\ disk \in {Missing, FileOf(<<"o", "l", "d", LF>>)}
       /\ linesep \in Platforms

NextProgress == NextText \/ CallWriteText \/ CallWriteCsv

SpecProgress == InitProgress /\ [][NextProgress]_vars

\* A generator's frame before its first next().
Created ==
    [pc |-> "created", handle |-> "unopened", inner |-> "none", pos |-> 0,
     num |-> 0, header |-> None, err |-> "none", out |-> <<>>, log |-> <<>>]

\* read_text_lines iterated to its end.
RECURSIVE AllTextLines(_, _, _)
AllTextLines(a, d, m) ==
    IF m.pc \in {"created", "suspended"}
    THEN AllTextLines(a, d, read_text_lines(a, d, m))
    ELSE m

WithoutProgress == [args EXCEPT !.tqdm = FALSE]

\* C7, as stated: tqdm = true changes nothing: read_text_lines yields the
\* lines it yields with tqdm = false, and write_text_lines and
\* write_csv_lines leave the file with the contents they leave with
\* tqdm = false.
C7_ProgressChangesNothing ==
    /\ fn = "read_text_lines" /\ pc = "returned"
           => out = AllTextLines(WithoutProgress, disk, Created).out
    /\ fn = "write_text_lines" /\ pc \in {"returned", "raised"}
           => disk.text = write_text_lines(WithoutProgress, linesep, Baseline).text
    /\ fn = "write_csv_lines" /\ pc \in {"returned", "raised"}
           => disk.text = write_csv_lines(WithoutProgress, linesep, Baseline).text

(***************************************************************************)
(* The file handle of the readers and the writers.                         *)
(***************************************************************************)
Eager == {"write_text_lines", "write_csv_lines"}

InitHandles ==
    \/ /\ Fresh("read_text_lines", "created")
       /\ args \in [strip : BOOLEAN, skip_empty : BOOLEAN, tqdm : {FALSE}, newline : {"None"}]
       /\ disk \in {Missing, DirOf({})} \cup {FileOf(t) : t \in TextsOf(TextLines, MaxShort)}
       /\ linesep = <<LF>>
    \/ /\ Fresh("read_json_lines", "created")
       /\ args \in JsonReadArgs
       /\ disk \in {Missing, DirOf({})} \cup {FileOf(t) : t \in Terminated(JsonLines, MaxShort)}
       /\ linesep = <<LF>>
    \/ /\ Fresh("read_csv_lines", "created")
       /\ args \in CsvReadArgs
       /\ disk \in {Missing, DirOf({})} \cup {FileOf(t) : t \in Terminated(CsvLines, MaxShort)}
       /\ linesep = <<LF>>
    \/ /\ Fresh("write_text_lines", "ready")
       /\ args \in [strip : BOOLEAN, skip_empty : BOOLEAN, tqdm : {FALSE}, newline : {"None"},
                    texts : {List([i \in 1..Len(ts) |-> Str(ts[i])]) : ts \in Seqs(TextLines, MaxShort)}]
       /\ disk \in WriteTargets
       /\ linesep = <<LF>>
    \/ /\ Fresh("write_csv_lines", "ready")
       /\ args \in [ignore_error : BOOLEAN, silent : {TRUE}, from_dict : BOOLEAN,
                    set_missing_key_to_none : BOOLEAN, ignore_unknown_key : BOOLEAN,
                    tqdm : {FALSE}, newline : {"None"},
                    structs : {PyInt(5)} \cup {List(rs) : rs \in Seqs(CsvRecords, MaxShort)}]
       /\ disk \in WriteTargets
       /\ linesep = <<LF>>

NextHandles ==
    NextText \/ NextJson \/ NextCsv \/ Close \/ Finalize \/ CallWriteText \/ CallWriteCsv

SpecHandles == InitHandles /\ [][NextHandles]_vars

\* C8, as stated: the handle is acquired at the start of the call and is
\* closed on every exit path before control is back with the caller, for
\* the lazy readers too.  Every state of this model is one in which the
\* caller runs: no call is under way, or a generator is suspended.
C8_ClosedWheneverTheCallerRuns == handle # "open"

\* C8, amended: a writer opens its handle at the start of the call and has
\* closed it when the call returns or raises.  A lazy reader opens its
\* handle when the caller asks for the first record, keeps it open while
\* its records are handed out, and has closed it once the sequence is
\* exhausted, has raised inside the with block, or was closed by the
\* caller; after a decode error or a close of read_json_lines the handle
\* stays open until the read_text_lines generator inside it is finalized.
C8_ClosedWhenTheSequenceEnds ==
    /\ fn \in Eager =>
          /\ pc = "ready" => handle = "unopened"
          /\ pc = "returned" => handle = "closed"
          /\ pc = "raised" => handle \in {"unopened", "closed"}
    /\ fn \in Lazy =>
          /\ pc = "created" => handle = "unopened"
          /\ pc = "suspended" => handle = "open"
          /\ pc = "returned" => handle # "open"
          /\ pc = "returned" /\ out # <<>> => handle = "closed"
          /\ pc \in {"raised", "closed"} /\ handle = "open"
                => fn = "read_json_lines" /\ inner = "suspended"

\* C8's case: a lazy reader has handed out two records one at a time and
\* has come to its end.
C8_Witness ==
    /\ fn \in Lazy /\ pc = "returned" /\ Len(out) = 2 /\ handle = "closed"

(***************************************************************************)
(* The keyed CSV round trip.                                               *)
(***************************************************************************)
KeySeqs ==
    {<<>>, <<KeyA>>, <<PyInt(1)>>, <<KeyA, KeyB>>, <<PyInt(1), Str(<<"1">>)>>}

CellValues ==
    {Str(<<>>), Str(<<COMMA>>), Str(<<QUOTE>>), Str(<<LF>>), Str(<<CR>>),
     None, PyInt(7)}

\* The mappings over the keys ks, in any key order.
RecordsOver(ks) ==
    {Dict([i \in 1..Len(ks) |-> <<o[i], vs[i]>>]) :
        o \in Orders(Range(ks)), vs \in [1..Len(ks) -> CellValues]}

\* The mappings whose key order is ks.
RecordsInOrder(ks) ==
    {Dict([i \in 1..Len(ks) |-> <<ks[i], vs[i]>>]) : vs \in [1..Len(ks) -> CellValues]}

\* The non-empty sequences of mappings that share a key set, of up to
\* MaxRecords records and MaxCells values in all.
SameKeyInputs ==
    UNION {UNION {{List(<<f>> \o rest) :
                      f \in RecordsInOrder(ks), rest \in [1..(n - 1) -> RecordsOver(ks)]} :
                  n \in {k \in 1..MaxRecords : k * Len(ks) <= MaxCells}} :
           ks \in KeySeqs}

RoundTripArgs ==
    [ignore_error : {FALSE}, silent : {TRUE}, from_dict : {TRUE},
     set_missing_key_to_none : {FALSE}, ignore_unknown_key : {TRUE},
     tqdm : {FALSE}, newline : {"None", ""},
     header_exists : {TRUE}, skip_header : BOOLEAN, match_header : {TRUE},
     to_dict : {TRUE}, structs : SameKeyInputs]

InitRoundTrip ==
    /\ Fresh("write_csv_lines", "ready")
    /\ args \in RoundTripArgs
    /\ disk = Missing
    /\ linesep \in Platforms

NextRoundTrip == CallWriteCsv \/ CallReadCsv \/ NextCsv

SpecRoundTrip == InitRoundTrip /\ [][NextRoundTrip]_vars

\* The file written from args.structs has been read back to the end.
RoundTripDone == fn = "read_csv_lines" /\ pc \in {"returned", "raised"}

\* A mapping with its values stringified.
Stringified(d) ==
    Dict([i \in 1..Len(d.v) |-> <<d.v[i][1], Str(str(d.v[i][2]))>>])

\* C2, as stated: writing mappings that share a key set with from_dict and
\* reading them back with match_header and to_dict (every other option at
\* its default) yields the original mappings, in order, their values
\* stringified.
C2_RoundTripYieldsTheOriginals ==
    RoundTripDone /\ ~args.skip_header /\ args.newline = "None" =>
        /\ pc = "returned"
        /\ Len(out) = Len(Records)
        /\ \A i \in 1..Len(Records) : DictEq(out[i], Stringified(Records[i]))

\* The text a key or value is read back as: None is written as the empty
\* field, and under newline = None every "\r" and "\r\n" is read as "\n".
ReadBackText(x) ==
    IF args.newline = "None" THEN Universal(FieldText(x)) ELSE FieldText(x)

ReadBack(d) ==
    Dict([i \in 1..Len(d.v) |->
             <<Str(ReadBackText(d.v[i][1])), Str(ReadBackText(d.v[i][2]))>>])

\* No two keys of the mapping are written as the same text.
DistinctKeyTexts(d) ==
    \A i, j \in 1..Len(d.v) :
        ReadBackText(d.v[i][1]) = ReadBackText(d.v[j][1]) => i = j

\* C2, amended: with skip_header = true on the read, where os.linesep is
\* "\n" or both calls pass newline = "", and for keys that are written as
\* distinct texts, the read yields one mapping per original, in order, whose
\* keys and values are the texts of the original keys and values: str(x),
\* but the empty text for None, and under newline = None with every "\r"
\* or "\r\n" turned into "\n".
C2_RoundTripYieldsTheTexts ==
    /\ RoundTripDone /\ args.skip_header
    /\ linesep = <<LF>> \/ args.newline = ""
    /\ DistinctKeyTexts(Records[1])
    => /\ pc = "returned"
       /\ Len(out) = Len(Records)
       /\ \A i \in 1..Len(Records) : DictEq(out[i], ReadBack(Records[i]))

\* C2's case: two mappings over two keys, in different key orders, one of
\* them holding a value that has to be quoted, read back in order.
C2_Witness ==
    /\ RoundTripDone /\ args.skip_header /\ pc = "returned"
    /\ Len(Records) = 2 /\ Len(Records[1].v) = 2
    /\ Keys(Records[1]) # Keys(Records[2])
    /\ Get(Records[1], KeyB) = Str(<<COMMA>>)
    /\ Len(out) = 2 /\ out[1] # out[2]
    /\ DictEq(out[1], ReadBack(Records[1]))

====
